---------------------------- MODULE Spec2Model ----------------------------
(***************************************************************************)
(* A model of the foreign-call resolver of src/src/main.rs: the JSON-RPC   *)
(* server of run_server, its resolve_foreign_call and say_hello methods,   *)
(* the dispatcher, and the getSqrt handler over the BN254 scalar field.    *)
(*                                                                         *)
(* Strings are sequences of one-character strings.  A field element is the *)
(* little-endian sequence of its base-10^4 limbs, without high zero limbs  *)
(* (zero is <<0>>); all arithmetic is exact and uses the real modulus.     *)
(***************************************************************************)
EXTENDS Integers, Sequences, FiniteSets, TLC

(***************************************************************************)
(* Evaluation helpers: Bind evaluates e once and hands its value to F;     *)
(* FoldRange is the loop  for i in lo..=hi { acc = F(acc, i) }.            *)
(***************************************************************************)
Bind(e, F(_)) == CHOOSE res \in {F(v) : v \in {e}} : TRUE

RECURSIVE FoldRange(_, _, _, _)
FoldRange(F(_, _), acc, lo, hi) ==
    IF lo > hi THEN acc
    ELSE IF lo = hi THEN F(acc, lo)
    ELSE Bind(FoldRange(F, acc, lo, (lo + hi) \div 2),
              LAMBDA v : FoldRange(F, v, (lo + hi) \div 2 + 1, hi))

Max(a, b) == IF a > b THEN a ELSE b
Min(a, b) == IF a < b THEN a ELSE b

(***************************************************************************)
(* Natural numbers of any size, as limb sequences.                         *)
(***************************************************************************)
Base == 10000

\* The limb i of a, zero beyond its length.
Limb(a, i) == IF i <= Len(a) THEN a[i] ELSE 0

\* a without its high zero limbs.
Trim(a) ==
    LET nz == {i \in 1..Len(a) : a[i] # 0}
    IN  IF nz = {} THEN <<0>>
        ELSE SubSeq(a, 1, CHOOSE i \in nz : \A j \in nz : j <= i)

\* The number whose limb i, before carrying, is cols[i] (i in 1..n; a column
\* may exceed Base or be negative; the number itself is not negative).
Norm(cols, n) ==
    LET step(acc, i) ==
            LET v == cols[i] + acc.carry
            IN  [limbs |-> Append(acc.limbs, v % Base), carry |-> v \div Base]
        low == FoldRange(step, [limbs |-> <<>>, carry |-> 0], 1, n)
        top == FoldRange(LAMBDA acc, i :
                            [limbs |-> Append(acc.limbs, acc.carry % Base),
                             carry |-> acc.carry \div Base],
                         low, 1, 2)
    IN  Trim(top.limbs)

Add(a, b) ==
    Norm([j \in 1..Max(Len(a), Len(b)) |-> Limb(a, j) + Limb(b, j)],
         Max(Len(a), Len(b)))

\* a - q * m, for a >= q * m.
SubScaled(a, q, m) ==
    Norm([j \in 1..Max(Len(a), Len(m)) |-> Limb(a, j) - q * Limb(m, j)],
         Max(Len(a), Len(m)))

Mul(a, b) ==
    LET dot(k) ==
            FoldRange(LAMBDA acc, i : acc + a[i] * b[k + 1 - i],
                      0, Max(1, k + 1 - Len(b)), Min(k, Len(a)))
    IN  Norm([k \in 1..(Len(a) + Len(b) - 1) |-> dot(k)], Len(a) + Len(b) - 1)

\* a >= b
Geq(a, b) ==
    LET diff == {i \in 1..Max(Len(a), Len(b)) : Limb(a, i) # Limb(b, i)}
    IN  diff = {} \/ LET hi == CHOOSE i \in diff : \A j \in diff : j <= i
                     IN  Limb(a, hi) > Limb(b, hi)

\* <<a \div 2, a % 2>>
HalfRem(a) ==
    LET n == Len(a)
        step(acc, i) ==
            LET v == acc.rem * Base + a[n + 1 - i]
            IN  [q |-> <<v \div 2>> \o acc.q, rem |-> v % 2]
        r == FoldRange(step, [q |-> <<>>, rem |-> 0], 1, n)
    IN  <<Trim(r.q), r.rem>>

\* The bits of a, least significant first.
Bits(a) ==
    LET step(acc, i) ==
            IF acc.rest = <<0>> THEN acc
            ELSE Bind(HalfRem(acc.rest),
                      LAMBDA h : [rest |-> h[1], bits |-> Append(acc.bits, h[2])])
    IN  FoldRange(step, [rest |-> a, bits |-> <<>>], 1, 14 * Len(a)).bits

\* The number with the given bits, least significant first.
FromBits(bits) ==
    FoldRange(LAMBDA acc, i : Add(Add(acc, acc), <<bits[Len(bits) + 1 - i]>>),
              <<0>>, 1, Len(bits))


(***************************************************************************)
(* ark_bn254::Fr: the prime field of order R.  An element is the reduced   *)
(* representative in [0, R).                                               *)
(***************************************************************************)
R == <<5617, 849, 5758, 4186, 9820, 3436, 6034, 41, 3644, 8548, 7508, 2572,
       5745, 4640, 2222, 9275, 7183, 2428, 1888, 2>>

\* Fr's multiplicative generator.
GENERATOR == <<5>>

Zero == <<0>>
One == <<1>>

\* An upper estimate of R \div Base^(Len(R) - 2).
RTop == R[Len(R)] * Base + R[Len(R) - 1] + 1

\* a - R while a >= R.
RECURSIVE CondSub(_)
CondSub(a) ==
    IF Geq(a, R) THEN Bind(SubScaled(a, 1, R), LAMBDA d : CondSub(d)) ELSE a

\* v mod R, for v of at most Len(R) + 1 limbs: subtract R times the quotient
\* estimated from the three high limbs (never too large), then what is left.
ReduceSmall(v) ==
    LET n == Len(R)
        vtop == Limb(v, n + 1) * Base * Base + Limb(v, n) * Base + Limb(v, n - 1)
    IN  Bind(SubScaled(v, vtop \div RTop, R), LAMBDA d : CondSub(d))

\* PowerTable[i] = Base^(Len(R) - 2 + i) mod R: PowerTable[i + 1] is the weight
\* of limb Len(R) + i.
PowerTable ==
    FoldRange(LAMBDA acc, i :
                  Append(acc, ReduceSmall(<<0>> \o acc[i])),
              <<[j \in 1..Len(R) |-> IF j = Len(R) THEN 1 ELSE 0]>>, 1, Len(R))

\* A number congruent to v mod R of at most Len(R) + 1 limbs: the limbs
\* above Len(R) are replaced by their weights mod R.
Fold(v) ==
    LET n == Len(R)
        col(j) ==
            FoldRange(LAMBDA acc, k : acc + v[k] * Limb(PowerTable[k - n + 1], j),
                      Limb(v, j), n + 1, Len(v))
    IN  Norm([j \in 1..n |-> col(j)], n)

\* v mod R, for v < Base^(2 * Len(R)).
RECURSIVE Reduce(_)
Reduce(v) ==
    IF Len(v) > Len(R) + 1 \/ Limb(v, Len(R) + 1) > 1
    THEN Bind(Fold(v), LAMBDA f : Reduce(f))
    ELSE ReduceSmall(v)

AddMod(a, b) == Bind(Add(a, b), LAMBDA s : CondSub(s))
MulMod(a, b) == Bind(Mul(a, b), LAMBDA p : Reduce(p))

\* Field::square
square(a) == MulMod(a, a)

\* Field::pow: square-and-multiply over the bits of the exponent, most
\* significant first (bits is least significant first).
pow(a, bits) ==
    FoldRange(LAMBDA acc, i :
                  Bind(MulMod(acc, acc),
                       LAMBDA s : IF bits[Len(bits) + 1 - i] = 1
                                  THEN MulMod(s, a) ELSE s),
              One, 1, Len(bits))

\* The bits of R - 1.
ModulusMinusOneBits == Bits(SubScaled(R, 1, One))

\* PrimeField::MODULUS_MINUS_ONE_DIV_TWO, as bits.
MODULUS_MINUS_ONE_DIV_TWO == Tail(ModulusMinusOneBits)

\* FftField::TWO_ADICITY: the number of low zero bits of R - 1.
TWO_ADICITY ==
    (CHOOSE i \in 1..Len(ModulusMinusOneBits) :
        /\ ModulusMinusOneBits[i] = 1
        /\ \A j \in 1..(i - 1) : ModulusMinusOneBits[j] = 0) - 1

\* PrimeField::TRACE, the odd t with R - 1 = 2^TWO_ADICITY * t, as bits.
TRACE == SubSeq(ModulusMinusOneBits, TWO_ADICITY + 1, Len(ModulusMinusOneBits))

\* PrimeField::TRACE_MINUS_ONE_DIV_TWO, as bits.
TRACE_MINUS_ONE_DIV_TWO == Tail(TRACE)

\* FftField::TWO_ADIC_ROOT_OF_UNITY = GENERATOR^TRACE, a non-residue.
TWO_ADIC_ROOT_OF_UNITY == pow(GENERATOR, TRACE)


(***************************************************************************)
(* Strings.                                                                *)
(***************************************************************************)
DigitChars == <<"0", "1", "2", "3", "4", "5", "6", "7", "8", "9">>

\* char::to_digit(10): the value of a decimal digit, -1 for any other char.
to_digit(ch) ==
    IF \E d \in 1..10 : DigitChars[d] = ch
    THEN (CHOOSE d \in 1..10 : DigitChars[d] = ch) - 1
    ELSE -1

\* str with at most one leading '0' removed.
strip_prefix(str) ==
    IF str # <<>> /\ str[1] = "0" THEN Tail(str) ELSE str

\* str::trim_start_matches('0')
trim_start_matches(str) ==
    LET keep == {i \in 1..Len(str) : str[i] # "0"}
    IN  IF keep = {} THEN <<>>
        ELSE SubSeq(str, CHOOSE i \in keep : \A j \in keep : i <= j, Len(str))

\* The decimal digits of the limb n, most significant first, at least
\* `width` of them.
LimbDigits(n, width) ==
    LET digit(p) == DigitChars[((n \div p) % 10) + 1]
        all == <<digit(1000), digit(100), digit(10), digit(1)>>
        lead == IF n >= 1000 THEN 4 ELSE IF n >= 100 THEN 3 ELSE IF n >= 10 THEN 2 ELSE 1
    IN  SubSeq(all, 5 - Max(lead, width), 4)

\* BigInt's Display (into_bigint().to_string()): the decimal digits of a,
\* without leading zeros.
to_string(a) ==
    FoldRange(LAMBDA acc, i :
                  acc \o LimbDigits(a[Len(a) + 1 - i], IF i = 1 THEN 1 ELSE 4),
              <<>>, 1, Len(a))

(***************************************************************************)
(* The operations of Fr that handle_get_sqrt calls.                        *)
(***************************************************************************)
\* The value of a hexadecimal digit, -1 for any other char.
to_digit_radix16(ch) ==
    IF to_digit(ch) # -1 THEN to_digit(ch)
    ELSE IF ch = "a" THEN 10 ELSE IF ch = "b" THEN 11 ELSE IF ch = "c" THEN 12
    ELSE IF ch = "d" THEN 13 ELSE IF ch = "e" THEN 14 ELSE IF ch = "f" THEN 15
    ELSE -1

\* A from_str that reads the operand in base 16.
from_str_radix16(str) ==
    IF str = <<>> THEN [ok |-> FALSE, val |-> Zero]
    ELSE IF str = <<"0">> THEN [ok |-> TRUE, val |-> Zero]
    ELSE IF \E i \in 1..Len(str) : to_digit_radix16(str[i]) = -1
         THEN [ok |-> FALSE, val |-> Zero]
    ELSE IF to_digit_radix16(str[1]) = 0 THEN [ok |-> FALSE, val |-> Zero]
    ELSE [ok |-> TRUE,
          val |-> FoldRange(LAMBDA acc, i :
                                Bind(MulMod(acc, <<16>>),
                                     LAMBDA m :
                                         AddMod(m, <<to_digit_radix16(str[i])>>)),
                            Zero, 1, Len(str))]

\* Fr::from_str: Err for the empty string, for a leading '0' before more
\* digits and for any char that is not a decimal digit; otherwise the value
\* accumulated digit by digit in the field (so reduced mod R).
from_str(str) ==
    IF str = <<>> THEN [ok |-> FALSE, val |-> Zero]
    ELSE IF str = <<"0">> THEN [ok |-> TRUE, val |-> Zero]
    ELSE IF \E i \in 1..Len(str) : to_digit(str[i]) = -1
         THEN [ok |-> FALSE, val |-> Zero]
    ELSE IF to_digit(str[1]) = 0 THEN [ok |-> FALSE, val |-> Zero]
    ELSE [ok |-> TRUE,
          val |-> FoldRange(LAMBDA acc, i :
                                Bind(MulMod(acc, <<10>>),
                                     LAMBDA m : AddMod(m, <<to_digit(str[i])>>)),
                            Zero, 1, Len(str))]

\* Field::legendre: a^((R - 1) / 2) is 0, 1 or R - 1.
LegendreSymbol(a) ==
    Bind(pow(a, MODULUS_MINUS_ONE_DIV_TWO),
         LAMBDA s : IF s = Zero THEN "Zero"
                    ELSE IF s = One THEN "QuadraticResidue"
                    ELSE "QuadraticNonResidue")


\* The inner loop of Tonelli-Shanks: the least k with b^(2^k) = 1.
RECURSIVE OrderLog(_, _)
OrderLog(b2k, k) ==
    IF b2k = One \/ k > TWO_ADICITY THEN k
    ELSE Bind(square(b2k), LAMBDA s : OrderLog(s, k + 1))

\* w squared n times.
SquareTimes(w, n) == FoldRange(LAMBDA acc, i : square(acc), w, 1, n)

\* The outer loop of Tonelli-Shanks.
RECURSIVE TonelliShanksLoop(_)
TonelliShanksLoop(st) ==
    IF st.b = One THEN [some |-> TRUE, val |-> st.xx]
    ELSE Bind(OrderLog(st.b, 0), LAMBDA k :
            IF k >= TWO_ADICITY THEN [some |-> FALSE, val |-> Zero]
            ELSE Bind(SquareTimes(st.z, st.v - k - 1), LAMBDA w :
                 Bind(square(w), LAMBDA z2 :
                 Bind([z |-> z2, b |-> MulMod(st.b, z2),
                       xx |-> MulMod(st.xx, w), v |-> k],
                      LAMBDA nx : TonelliShanksLoop(nx)))))

\* Field::sqrt (SqrtPrecomputation::TonelliShanks): Some(0) for zero, a
\* root of a, checked by squaring it, or None.
TonelliShanks(a) ==
    IF a = Zero THEN [some |-> TRUE, val |-> Zero]
    ELSE Bind(pow(a, TRACE_MINUS_ONE_DIV_TWO), LAMBDA w :
         Bind(MulMod(w, a), LAMBDA x0 :
         Bind(TonelliShanksLoop([z |-> TWO_ADIC_ROOT_OF_UNITY, b |-> MulMod(x0, w),
                                 xx |-> x0, v |-> TWO_ADICITY]),
              LAMBDA res : IF res.some /\ square(res.val) = a THEN res
                           ELSE [some |-> FALSE, val |-> Zero])))


(***************************************************************************)
(* JSON documents, and the requests the clients of the model send.         *)
(***************************************************************************)
JNum(n) == [kind |-> "num", num |-> n]
JStr(s) == [kind |-> "str", str |-> s]
JArr(items) == [kind |-> "arr", items |-> items]
JObj(fields) == [kind |-> "obj", fields |-> fields]

\* jsonrpsee's Params: no params member, or the JSON text of the member.
NoParams == [kind |-> "none"]
SomeParams(json) == [kind |-> "some", json |-> json]

GetSqrt == <<"g", "e", "t", "S", "q", "r", "t">>
GetSqrtLower == <<"g", "e", "t", "s", "q", "r", "t">>
GetFoo == <<"g", "e", "t", "F", "o", "o">>
Oops == <<"o", "o", "p", "s">>
BadQuery == <<"B", "a", "d", " ", "q", "u", "e", "r", "y">>
Lo == <<"l", "o">>
RootPath == <<"/", "t", "m", "p", "/", "x">>
Demo == <<"d", "e", "m", "o">>
Other == <<"o", "t", "h", "e", "r">>

JStrings(strs) == JArr([i \in 1..Len(strs) |-> JStr(strs[i])])

\* The JSON object of one request.
RequestJson(session, fn, inputs, root, pkg) ==
    JObj([session_id |-> JNum(session), function |-> JStr(fn),
          inputs |-> JStrings(inputs), root_path |-> JStr(root),
          package_name |-> JStr(pkg)])

Call(fn, inputs) == RequestJson(1, fn, inputs, RootPath, Demo)

\* The JSON array of the five fields of one request, in the order of the
\* struct's declaration.
RequestSeq(session, fn, inputs, root, pkg) ==
    JArr(<<JNum(session), JStr(fn), JStrings(inputs), JStr(root), JStr(pkg)>>)

\* params = [ [session_id, function, inputs, root_path, package_name] ]
OneSeqCall(fn, inputs) ==
    SomeParams(JArr(<<RequestSeq(1, fn, inputs, RootPath, Demo)>>))

\* params = [ {function, inputs, ...} ]
OneCall(fn, inputs) == SomeParams(JArr(<<Call(fn, inputs)>>))

\* k '0' characters before str.
Pad(k, str) == [i \in 1..k |-> "0"] \o str

\* Operands that are decimal numerals of field elements, without padding.
Numerals ==
    {<<"1">>, <<"4">>, <<"5">>, <<"9">>, <<"1", "0">>, <<"1", "6">>,
     <<"1", "0", "0", "0", "0">>}

\* The operands sent as inputs[0] of a getSqrt request.
Operands ==
    Numerals
    \cup {Pad(1, <<"9">>), Pad(3, <<"9">>), Pad(1, <<"5">>), Pad(2, <<"1", "6">>)}
    \cup {<<>>, <<"0">>, <<"0", "0">>, <<"1", "a">>, <<"f", "f">>, Pad(2, <<"f", "f">>),
          <<"9", " ">>, to_string(R)}

\* Requests that differ from OneCall(GetSqrt, <<w>>) in what follows the
\* first operand of the first request, or in the fields the core ignores.
Variants(w) ==
    {OneCall(GetSqrt, <<w, <<"5">>>>),
     OneCall(GetSqrt, <<w, <<"z">>, <<>>>>),
     SomeParams(JArr(<<Call(GetSqrt, <<w>>), Call(GetFoo, <<>>)>>)),
     SomeParams(JArr(<<Call(GetSqrt, <<w>>), Call(GetSqrt, <<<<"4">>>>)>>)),
     SomeParams(JArr(<<RequestJson(2, GetSqrt, <<w>>, <<>>, Other)>>))}

\* Payloads that do not decode to a non-empty Requests array.
Undecodable ==
    {SomeParams(JStr(<<"[", "]">>)),
     SomeParams(JNum(7)),
     SomeParams(Call(GetSqrt, <<<<"9">>>>)),
     SomeParams(JArr(<<>>)),
     SomeParams(JArr(<<JObj([session_id |-> JNum(1), inputs |-> JStrings(<<<<"9">>>>),
                             root_path |-> JStr(RootPath),
                             package_name |-> JStr(Demo)])>>)),
     SomeParams(JArr(<<JObj([session_id |-> JNum(1), function |-> JStr(GetSqrt),
                             root_path |-> JStr(RootPath),
                             package_name |-> JStr(Demo)])>>)),
     SomeParams(JArr(<<JObj([function |-> JStr(GetSqrt),
                             inputs |-> JStrings(<<<<"9">>>>)])>>)),
     SomeParams(JArr(<<JObj([session_id |-> JNum(1), function |-> JStr(GetSqrt),
                             inputs |-> JArr(<<JNum(9)>>),
                             root_path |-> JStr(RootPath),
                             package_name |-> JStr(Demo)])>>)),
     SomeParams(JArr(<<Call(GetSqrt, <<<<"9">>>>), JNum(0)>>)),
     SomeParams(JArr(<<JArr(<<JNum(1), JStr(GetSqrt), JStrings(<<<<"9">>>>),
                              JStr(RootPath)>>)>>)),
     SomeParams(JArr(<<JArr(<<JNum(1), JStr(GetSqrt), JStrings(<<<<"9">>>>),
                              JStr(RootPath), JStr(Demo), JStr(Other)>>)>>)),
     SomeParams(JArr(<<JArr(<<JStr(GetSqrt), JNum(1), JStrings(<<<<"9">>>>),
                              JStr(RootPath), JStr(Demo)>>)>>))}

\* Requests for a function other than getSqrt.
UnknownCalls ==
    {OneCall(GetFoo, <<>>), OneCall(GetFoo, <<<<"z", "z">>>>),
     OneCall(GetFoo, <<<<"9">>>>), OneCall(GetSqrtLower, <<<<"9">>>>),
     OneCall(<<>>, <<<<"5">>>>),
     SomeParams(JArr(<<Call(GetFoo, <<<<"9">>>>), Call(GetSqrt, <<<<"9">>>>)>>))}

\* The params a single caller sends.
CallParams ==
    {NoParams} \cup Undecodable \cup UnknownCalls
    \cup {OneCall(GetSqrt, <<>>)}
    \cup {OneCall(GetSqrt, <<w>>) : w \in Operands}
    \cup Variants(<<"9">>) \cup Variants(<<"5">>)
    \cup {OneSeqCall(GetSqrt, <<<<"9">>>>), OneSeqCall(GetSqrt, <<<<"5">>>>),
          OneSeqCall(GetFoo, <<>>)}

\* The params the concurrent clients send.
ServerParams ==
    {NoParams, SomeParams(JArr(<<>>)), OneCall(GetFoo, <<>>),
     OneCall(GetSqrt, <<<<"9">>>>), OneCall(GetSqrt, <<Pad(3, <<"9">>)>>),
     OneCall(GetSqrt, <<<<"5">>>>), OneCall(GetSqrt, <<<<"0">>>>)}

(***************************************************************************)
(* serde_json::from_str::<Requests>.                                       *)
(***************************************************************************)
IsString(json) == json.kind = "str"
IsU64(json) == json.kind = "num" /\ json.num >= 0
IsVecString(json) ==
    json.kind = "arr" /\ \A i \in 1..Len(json.items) : IsString(json.items[i])

\* The fields of a RequestData, once they are found.
RequestFields(session, fn, inputs, root, pkg) ==
    IF /\ IsU64(session)
       /\ IsString(fn)
       /\ IsVecString(inputs)
       /\ IsString(root)
       /\ IsString(pkg)
    THEN [ok |-> TRUE,
          val |-> [session_id |-> session.num,
                   function |-> fn.str,
                   inputs |-> [i \in 1..Len(inputs.items) |-> inputs.items[i].str],
                   root_path |-> root.str,
                   package_name |-> pkg.str]]
    ELSE [ok |-> FALSE, val |-> <<>>]

\* #[derive(Deserialize)] struct RequestData.  The derived visitor takes a
\* JSON object (visit_map): every field is required, fields the struct does
\* not name are skipped; and a JSON array (visit_seq): exactly the five
\* fields in the order of the declaration.
RequestData(json) ==
    IF json.kind = "obj"
    THEN IF {"session_id", "function", "inputs", "root_path", "package_name"}
                \subseteq DOMAIN json.fields
         THEN RequestFields(json.fields.session_id, json.fields.function,
                            json.fields.inputs, json.fields.root_path,
                            json.fields.package_name)
         ELSE [ok |-> FALSE, val |-> <<>>]
    ELSE IF json.kind = "arr" /\ Len(json.items) = 5
    THEN RequestFields(json.items[1], json.items[2], json.items[3],
                       json.items[4], json.items[5])
    ELSE [ok |-> FALSE, val |-> <<>>]

\* struct Requests(Vec<RequestData>): a JSON array of RequestData.
Requests(json) ==
    IF json.kind = "arr" /\ \A i \in 1..Len(json.items) : RequestData(json.items[i]).ok
    THEN [ok |-> TRUE,
          val |-> [i \in 1..Len(json.items) |-> RequestData(json.items[i]).val]]
    ELSE [ok |-> FALSE, val |-> <<>>]

(***************************************************************************)
(* The handlers.  A call returns a string or panics.                       *)
(***************************************************************************)
Ok(str) == [tag |-> "Ok", val |-> str, msg |-> ""]
Panic(msg) == [tag |-> "Panic", val |-> <<>>, msg |-> msg]

\* The field elements the operands parse to; legendre and sqrt are
\* evaluated once for each of them.
FrSamples == {from_str(trim_start_matches(w)).val : w \in Operands}

LegendreMemo == [a \in FrSamples |-> LegendreSymbol(a)]
SqrtMemo == [a \in FrSamples |-> TonelliShanks(a)]

legendre(a) == IF a \in FrSamples THEN LegendreMemo[a] ELSE LegendreSymbol(a)
sqrt(a) == IF a \in FrSamples THEN SqrtMemo[a] ELSE TonelliShanks(a)

\* LegendreSymbol::is_qr
is_qr(sym) == sym = "QuadraticResidue"

\* A handler that answers a placeholder root when there is no root.
handle_get_sqrt_or_default(inputs) ==
    IF Len(inputs) = 0 THEN Panic("index out of bounds")
    ELSE Bind(from_str(trim_start_matches(inputs[1])), LAMBDA parsed :
         IF ~parsed.ok THEN Panic("called Result::unwrap on an Err value")
         ELSE Bind(sqrt(parsed.val), LAMBDA root :
              IF root.some THEN Ok(to_string(root.val)) ELSE Ok(to_string(Zero))))

handle_get_sqrt(inputs) ==
    IF Len(inputs) = 0 THEN Panic("index out of bounds")
    ELSE Bind(from_str(trim_start_matches(inputs[1])), LAMBDA parsed :
         IF ~parsed.ok THEN Panic("called Result::unwrap on an Err value")
         ELSE Bind(sqrt(parsed.val), LAMBDA root :
              IF is_qr(legendre(parsed.val))
              THEN IF ~root.some
                   THEN Panic("called Option::unwrap on a None value")
                   ELSE IF square(root.val) # parsed.val
                   THEN Panic("assertion left == right failed")
                   ELSE Ok(to_string(root.val))
              ELSE IF root.some
              THEN Panic("assertion left == right failed")
              ELSE Panic("division by zero")))

\* A handler for unknown functions that reads the first operand.
handle_unknown_function_inputs(request) ==
    IF Len(request.inputs) = 0 THEN Panic("index out of bounds") ELSE Ok(Oops)

handle_unknown_function(request) == Ok(Oops)

\* A resolver that dispatches the last request of the array.
resolve_foreign_call_last(params) ==
    IF params.kind = "none" THEN Ok(BadQuery)
    ELSE LET requests == Requests(params.json)
         IN  IF ~requests.ok THEN Panic("Failed to parse JSON")
             ELSE IF Len(requests.val) = 0 THEN Panic("index out of bounds")
             ELSE LET request == requests.val[Len(requests.val)]
                  IN  IF request.function = GetSqrt
                      THEN handle_get_sqrt(request.inputs)
                      ELSE handle_unknown_function(request)

\* The closure registered as "resolve_foreign_call".
resolve_foreign_call(params) ==
    IF params.kind = "none" THEN Ok(BadQuery)
    ELSE LET requests == Requests(params.json)
         IN  IF ~requests.ok THEN Panic("Failed to parse JSON")
             ELSE IF Len(requests.val) = 0 THEN Panic("index out of bounds")
             ELSE LET request == requests.val[1]
                  IN  IF request.function = GetSqrt
                      THEN handle_get_sqrt(request.inputs)
                      ELSE handle_unknown_function(request)

\* The closure registered as "say_hello".
say_hello(params) == Ok(Lo)

\* The closure of resolve_foreign_call in the steps a concurrent call can
\* be observed between.  Bound(request): the call goes on with its local
\* variable request bound.
Bound(request) == [tag |-> "Bound", val |-> request, msg |-> ""]

\* Up to "let request = &requests.0[0]": the response "Bad query", a panic,
\* or the first request of the array.
first_request(params) ==
    IF params.kind = "none" THEN Ok(BadQuery)
    ELSE LET requests == Requests(params.json)
         IN  IF ~requests.ok THEN Panic("Failed to parse JSON")
             ELSE IF Len(requests.val) = 0 THEN Panic("index out of bounds")
             ELSE Bound(requests.val[1])

\* "let result = match request.function.as_str() { .. }".
dispatch(request) ==
    IF request.function = GetSqrt
    THEN handle_get_sqrt(request.inputs)
    ELSE handle_unknown_function(request)

(***************************************************************************)
(* run_server: the methods registered in the RPC module, called for the    *)
(* requests of clients.  The model follows the calls.  Whether the process  *)
(* that hosts the module outlives a call that panics is decided by the      *)
(* async runtime and by the panic strategy of the build, neither of which   *)
(* is in the source: the host is not modelled.                              *)
(***************************************************************************)
MaxConns == 2
MaxRequests == 2

Conns == 1..MaxConns

ResolveForeignCall == "resolve_foreign_call"
SayHello == "say_hello"

Request(method, params) == [method |-> method, params |-> params]

\* What the concurrent clients send, and what the single caller sends.
ServerRequests ==
    {Request(ResolveForeignCall, p) : p \in ServerParams}
    \cup {Request(SayHello, NoParams)}
CallRequests == {Request(ResolveForeignCall, p) : p \in CallParams}

\* conn:   per connection, [st, req]; st is "idle", "pending" (the request
\*         is sent), "decoded" (the call has bound request) or "computed"
\*         (the call has bound result).
\* locals: per stack frame, the local variables request and result of the
\*         call that runs in it.
\* log:    the calls that ended, in the order they ended, each with its
\*         request, its outcome and the requests of the calls that were
\*         in flight on other connections at that moment.
VARIABLES conn, locals, log

vars == <<conn, locals, log>>

Idle == [st |-> "idle", req |-> Request("", NoParams)]
Pending(req) == [st |-> "pending", req |-> req]

InFlight == {c \in Conns : conn[c].st # "idle"}

NoRequest ==
    [session_id |-> 0, function |-> <<>>, inputs |-> <<>>, root_path |-> <<>>,
     package_name |-> <<>>]
NoLocals == [request |-> NoRequest, result |-> <<>>]

\* A closure whose local variables live in one static shared by all calls.
StaticFrame(c) == 1

\* The frame of the call on connection c: request, result and response are
\* let bindings of the closure, so every call has a frame of its own.
Frame(c) == c

\* The requests the calls bind, and the handlers' outcomes for them,
\* evaluated once each.
FirstRequests ==
    {first_request(p).val :
        p \in {q \in CallParams \cup ServerParams : first_request(q).tag = "Bound"}}
    \cup {NoRequest}
Dispatched == [request \in FirstRequests |-> dispatch(request)]

\* resolve_foreign_call of every params a client sends, evaluated once.
Responses == [p \in CallParams \cup ServerParams |-> resolve_foreign_call(p)]

\* The method the module has registered under the name, applied to params,
\* run from its first line to its last.  The module's context is the unit
\* value: a call is given nothing but params.
call(method, params) ==
    IF method = SayHello THEN say_hello(params) ELSE Responses[params]

Init ==
    /\ conn = [c \in Conns |-> Idle]
    /\ locals = [f \in Conns |-> NoLocals]
    /\ log = <<>>

\* The call on connection c ends with the outcome.
End(c, outcome) ==
    /\ log' = Append(log, [req |-> conn[c].req, outcome |-> outcome,
                           beside |-> {conn[d].req : d \in InFlight \ {c}}])
    /\ conn' = [conn EXCEPT ![c] = Idle]

\* The client of connection c sends req.
Send(c, req) ==
    /\ conn[c].st = "idle"
    /\ Len(log) + Cardinality(InFlight) < MaxRequests
    /\ conn' = [conn EXCEPT ![c] = Pending(req)]
    /\ UNCHANGED <<locals, log>>

\* The method of the request pending on connection c runs from its first
\* line to its last: nothing else runs in between.
Serve(c) ==
    /\ conn[c].st = "pending"
    /\ \E outcome \in {call(conn[c].req.method, conn[c].req.params)} :
           End(c, outcome)
    /\ UNCHANGED locals

\* say_hello runs for the request pending on connection c.
Hello(c) ==
    /\ conn[c].st = "pending"
    /\ conn[c].req.method = SayHello
    /\ End(c, say_hello(conn[c].req.params))
    /\ UNCHANGED locals

\* resolve_foreign_call starts for the request pending on connection c: it
\* answers "Bad query", panics, or binds request.
Begin(c) ==
    /\ conn[c].st = "pending"
    /\ conn[c].req.method = ResolveForeignCall
    /\ \E first \in {first_request(conn[c].req.params)} :
           IF first.tag = "Bound"
           THEN /\ locals' = [locals EXCEPT ![Frame(c)].request = first.val]
                /\ conn' = [conn EXCEPT ![c].st = "decoded"]
                /\ UNCHANGED log
           ELSE /\ End(c, first)
                /\ UNCHANGED locals

\* The call on connection c runs the handler of request.function: it
\* panics or binds result.
Dispatch(c) ==
    /\ conn[c].st = "decoded"
    /\ \E outcome \in {Dispatched[locals[Frame(c)].request]} :
           IF outcome.tag = "Ok"
           THEN /\ locals' = [locals EXCEPT ![Frame(c)].result = outcome.val]
                /\ conn' = [conn EXCEPT ![c].st = "computed"]
                /\ UNCHANGED log
           ELSE /\ End(c, outcome)
                /\ locals' = [locals EXCEPT ![Frame(c)] = NoLocals]

\* The call on connection c returns result as its response.
Respond(c) ==
    /\ conn[c].st = "computed"
    /\ End(c, Ok(locals[Frame(c)].result))
    /\ locals' = [locals EXCEPT ![Frame(c)] = NoLocals]

\* Clients on several connections; the calls run concurrently, step by step.
Next ==
    \E c \in Conns :
        \/ \E req \in ServerRequests : Send(c, req)
        \/ Hello(c)
        \/ Begin(c)
        \/ Dispatch(c)
        \/ Respond(c)

Spec == Init /\ [][Next]_vars

\* One caller on one connection, sending any of CallRequests: each call
\* has ended before the next request is sent.
CallNext ==
    \/ \E req \in CallRequests : Send(1, req)
    \/ Serve(1)

CallSpec == Init /\ [][CallNext]_vars

TypeOK ==
    /\ \A c \in Conns : conn[c].st \in {"idle", "pending", "decoded", "computed"}
    /\ Len(log) <= MaxRequests

(***************************************************************************)
(* Properties.  They read the log: what was asked and what was answered.   *)
(***************************************************************************)
IsDigits(w) == \A i \in 1..Len(w) : \E d \in 1..Len(DigitChars) : w[i] = DigitChars[d]

DigitValue(ch) == (CHOOSE d \in 1..Len(DigitChars) : DigitChars[d] = ch) - 1

\* w without its leading '0' characters.
Stripped(w) ==
    IF \A i \in 1..Len(w) : w[i] = "0" THEN <<>>
    ELSE SubSeq(w, CHOOSE i \in 1..Len(w) :
                       w[i] # "0" /\ \A j \in 1..(i - 1) : w[j] = "0",
                Len(w))

\* The number a string of decimal digits denotes: limb k holds the digits
\* 4k-3 .. 4k counted from the right.
DecimalOf(w) ==
    LET digit(pos) == IF pos >= 1 THEN DigitValue(w[pos]) ELSE 0
        limb(k) == LET low == Len(w) - 4 * (k - 1)
                   IN  digit(low) + 10 * digit(low - 1) + 100 * digit(low - 2)
                       + 1000 * digit(low - 3)
    IN  Trim([k \in 1..((Len(w) + 3) \div 4) |-> limb(k)])

\* The numerals that occur as operands and as answers, evaluated once each.
DecimalMemo ==
    [w \in {v \in Operands \cup {Stripped(u) : u \in Operands}
                  \cup {Responses[p].val : p \in DOMAIN Responses} : IsDigits(v)}
        |-> DecimalOf(w)]

DecimalValue(w) == IF w \in DOMAIN DecimalMemo THEN DecimalMemo[w] ELSE DecimalOf(w)

\* w denotes a field element: a numeral of a number below R.
Denotes(w) == w # <<>> /\ IsDigits(w) /\ ~Geq(DecimalValue(w), R)

\* u is w after some number of '0' characters.
IsPadded(u, w) ==
    /\ Len(u) >= Len(w)
    /\ \A i \in 1..(Len(u) - Len(w)) : u[i] = "0"
    /\ \A i \in 1..Len(w) : u[Len(u) - Len(w) + i] = w[i]

IsSquare(a) == a = Zero \/ legendre(a) = "QuadraticResidue"

\* The squares of the numbers the answers denote, evaluated once each.
AnswerSquares ==
    [str \in {Responses[p].val : p \in DOMAIN Responses} |->
        IF str # <<>> /\ IsDigits(str) THEN square(Reduce(DecimalValue(str)))
        ELSE Zero]

\* str is the numeral of a field element whose square is a.
IsRootOf(str, a) ==
    /\ Denotes(str)
    /\ a = (IF str \in DOMAIN AnswerSquares THEN AnswerSquares[str]
            ELSE square(DecimalValue(str)))

Entries == DOMAIN log

IsResolve(e) == e.req.method = ResolveForeignCall

\* What each payload decodes to, evaluated once each.
DecodeMemo ==
    [p \in CallParams \cup ServerParams |->
        IF p.kind = "some" THEN Requests(p.json) ELSE [ok |-> FALSE, val |-> <<>>]]

\* The request decodes to a non-empty array of requests.
Decodes(e) ==
    /\ IsResolve(e)
    /\ DecodeMemo[e.req.params].ok
    /\ DecodeMemo[e.req.params].val # <<>>

First(e) == DecodeMemo[e.req.params].val[1]

\* A getSqrt request with an operand.
IsGetSqrt(e) == Decodes(e) /\ First(e).function = GetSqrt /\ First(e).inputs # <<>>

Operand(e) == First(e).inputs[1]

Failed(e) == e.outcome.tag = "Panic"
Returned(e, str) == e.outcome.tag = "Ok" /\ e.outcome.val = str

SameOutcome(e, f) ==
    e.outcome.tag = f.outcome.tag /\ e.outcome.val = f.outcome.val

\* C1 (as stated): every getSqrt request whose operand denotes a square x in
\* [0, R) is answered, not failed, with the numeral of a y in [0, R) such
\* that y * y = x mod R.
SqrtOfEverySquare ==
    \A i \in Entries :
        (/\ IsGetSqrt(log[i])
         /\ Denotes(Operand(log[i]))
         /\ IsSquare(DecimalValue(Operand(log[i]))))
        => (/\ log[i].outcome.tag = "Ok"
            /\ IsRootOf(log[i].outcome.val, DecimalValue(Operand(log[i]))))

\* C1, a served request that is its case: the operand "0" denotes the square 0.
ZeroOperandServed ==
    \E i \in Entries : IsGetSqrt(log[i]) /\ Operand(log[i]) = <<"0">>

\* C2: every getSqrt request whose operand denotes an x in [0, R) that is not
\* a square fails; it is never answered with a string.
NonResidueRejected ==
    \A i \in Entries :
        (/\ IsGetSqrt(log[i])
         /\ Denotes(Operand(log[i]))
         /\ ~IsSquare(DecimalValue(Operand(log[i]))))
        => Failed(log[i])

\* C2, witness: the request for the root of the non-residue 5 has failed.
NonResidueFailed ==
    \E i \in Entries :
        /\ IsGetSqrt(log[i])
        /\ Operand(log[i]) = <<"5">>
        /\ ~IsSquare(<<5>>)
        /\ Failed(log[i])

\* C3 (as stated): a getSqrt request whose operand consists only of '0'
\* characters is answered with the string "0".
ZeroOperandAnswersZero ==
    \A i \in Entries :
        (/\ IsGetSqrt(log[i])
         /\ Operand(log[i]) # <<>>
         /\ Stripped(Operand(log[i])) = <<>>)
        => Returned(log[i], <<"0">>)

\* The payload is not an encoding of a non-empty array of requests.
ParamShapeError(params) ==
    \/ params.kind = "none"
    \/ ~DecodeMemo[params].ok
    \/ DecodeMemo[params].val = <<>>

\* C4 (as stated): whenever params is no encoding of a non-empty array of
\* requests, the result is the string "Bad query" and the handler does not
\* panic.
ParamShapeErrorAnswersBadQuery ==
    \A i \in Entries :
        (IsResolve(log[i]) /\ ParamShapeError(log[i].req.params))
        => Returned(log[i], BadQuery)

\* C4, witness: a request without params was answered "Bad query" and the
\* request with the empty array has failed.
BothShapeErrorsServed ==
    /\ \E i \in Entries :
           /\ IsResolve(log[i])
           /\ log[i].req.params = NoParams
           /\ Returned(log[i], BadQuery)
    /\ \E i \in Entries :
           /\ IsResolve(log[i])
           /\ log[i].req.params = SomeParams(JArr(<<>>))
           /\ Failed(log[i])

\* C5: every request that decodes and whose first element names a function
\* other than "getSqrt" is answered "oops", whatever its inputs.
UnknownFunctionAnswersOops ==
    \A i \in Entries :
        (Decodes(log[i]) /\ First(log[i]).function # GetSqrt)
        => Returned(log[i], Oops)

\* C5, witness: getFoo requests without inputs (sent as an array of the
\* fields) and with an unparsable input were both answered "oops".
UnknownFunctionsServed ==
    /\ \E i \in Entries :
           /\ log[i].req.params = OneSeqCall(GetFoo, <<>>)
           /\ Returned(log[i], Oops)
    /\ \E i \in Entries :
           /\ log[i].req.params = OneCall(GetFoo, <<<<"z", "z">>>>)
           /\ Returned(log[i], Oops)

\* C7: two getSqrt requests whose operands differ only by leading '0'
\* characters have the same outcome: the same string, or both fail.
LeadingZerosIgnored ==
    \A i, j \in Entries :
        (/\ IsGetSqrt(log[i])
         /\ IsGetSqrt(log[j])
         /\ IsPadded(Operand(log[j]), Operand(log[i])))
        => SameOutcome(log[i], log[j])

\* C7, witness: the operands "9" and "0009" were both answered.
PaddedOperandServed ==
    \E i, j \in Entries :
        /\ IsGetSqrt(log[i])
        /\ IsGetSqrt(log[j])
        /\ Operand(log[i]) = <<"9">>
        /\ Operand(log[j]) = Pad(3, <<"9">>)
        /\ log[i].outcome.tag = "Ok"
        /\ log[j].outcome.tag = "Ok"

\* C8: when the operand without its leading zeros is a non-empty string of
\* decimal digits, the request is about its base-10 value x mod R: an
\* answer is a root of x, and a failure means x is no quadratic residue.
OperandIsDecimal ==
    \A i \in Entries :
        (/\ IsGetSqrt(log[i])
         /\ Stripped(Operand(log[i])) # <<>>
         /\ IsDigits(Stripped(Operand(log[i]))))
        => (/\ log[i].outcome.tag = "Ok" =>
                IsRootOf(log[i].outcome.val,
                         Reduce(DecimalValue(Stripped(Operand(log[i])))))
            /\ Failed(log[i]) =>
                legendre(Reduce(DecimalValue(Stripped(Operand(log[i])))))
                    # "QuadraticResidue")

\* C8, witness: the operand "10" has failed (ten is a non-residue, sixteen
\* is a square) and the operand "16" was answered.
TenAndSixteenServed ==
    /\ \E i \in Entries :
           IsGetSqrt(log[i]) /\ Operand(log[i]) = <<"1", "0">> /\ Failed(log[i])
    /\ \E i \in Entries :
           /\ IsGetSqrt(log[i])
           /\ Operand(log[i]) = <<"1", "6">>
           /\ log[i].outcome.tag = "Ok"

\* C9: whatever calls ended before it and whatever calls ran concurrently
\* with it, step between step, every request has the outcome it has when
\* its call is the only one and runs from its first line to its last; so
\* equal requests have equal outcomes.
Stateless ==
    /\ \A i \in Entries :
           log[i].outcome = call(log[i].req.method, log[i].req.params)
    /\ \A i, j \in Entries :
           log[i].req = log[j].req => log[i].outcome = log[j].outcome

\* C9, witness: the root of 9 was answered while the call for getFoo was in
\* flight on another connection, and the getFoo call ended after it with
\* "oops".
ServedInterleaved ==
    \E i, j \in Entries :
        /\ i < j
        /\ log[i].req.params = OneCall(GetSqrt, <<<<"9">>>>)
        /\ log[j].req.params = OneCall(GetFoo, <<>>)
        /\ log[j].req \in log[i].beside
        /\ log[i].outcome.tag = "Ok"
        /\ log[i].outcome.val # Oops
        /\ Returned(log[j], Oops)

\* The first operand of the first request, if there is one.
FirstOperand(e) == IF First(e).inputs = <<>> THEN <<>> ELSE <<Operand(e)>>

\* C10: two requests that decode and agree on the function and on the first
\* operand of their first element have the same outcome.
OnlyFirstRequestFirstOperand ==
    \A i, j \in Entries :
        (/\ Decodes(log[i])
         /\ Decodes(log[j])
         /\ First(log[i]).function = First(log[j]).function
         /\ FirstOperand(log[i]) = FirstOperand(log[j]))
        => log[i].outcome = log[j].outcome

\* C10, witness: the request for the root of 9 was answered alone and
\* followed by a second request in the same array.
LaterRequestIgnored ==
    \E i, j \in Entries :
        /\ log[i].req.params = OneCall(GetSqrt, <<<<"9">>>>)
        /\ log[j].req.params =
               SomeParams(JArr(<<Call(GetSqrt, <<<<"9">>>>), Call(GetFoo, <<>>)>>))
        /\ log[i].outcome.tag = "Ok"
        /\ log[i].outcome = log[j].outcome

=============================================================================
